---- MODULE Spec2Model ----
(***************************************************************************)
(* Model of custom_components/ble_led/interactors.py: the RGBW command     *)
(* encoder, the BtlewrapWorker thread (inbox, retry loop, keepalive) and   *)
(* the BtlewrapRGBWInteractor facade that enqueues to it.                  *)
(***************************************************************************)
EXTENDS Integers, Sequences, FiniteSets, TLC

(* ------------------------------ bounds -------------------------------- *)
\* interactors constructed in one process
MaxWriters == 2
\* caller threads that call the interactor's _write concurrently
NProducers == 2
\* commands submitted in all
MaxEnq == 2
\* inbox waits that time out, in all
MaxEmpty == 1
\* BackendError outcomes the backend produces for the items in progress (in
\* all, under the clock); also the largest attempts value a directly
\* constructed worker is given
MaxFailures == 3
\* clock ticks of the timed specification
MaxTime == 8
\* loop iterations, in all, of the workers of the several-interactor process
ProcessLoops == 2
\* BackendError outcomes for one item of the long-retry specification
ItemFailures == 12
\* clock ticks of the slow-attempt specification
SlowTime == 12

(* ------------------------- program constants -------------------------- *)
control_handle == 7
\* white_offset one byte lower, on a non-zero byte of white_base
white_offset_low == 2 * 8 - 8
white_offset == 16
DefaultKeepalive == 2
DefaultAttempts == 100
SlowLimit == 10
WarnLimit == 10
GattAttempts == 5

(* ------------------- integers as base-256 digit strings --------------- *)
\* Python integers are unbounded; the command values need 55 bits. A value
\* is a little-endian sequence of NumDigits base-256 digits.
ByteBits == 8
Base == 2 ^ ByteBits


\* rgb_offsets with red and green exchanged
rgb_offsets_swapped == <<32, 40, 24>>

rgb_offsets == <<40, 32, 24>>
\* 0x5600000000f0aa
rgb_base == <<170, 240, 0, 0, 0, 0, 86, 0>>
NumDigits == Len(rgb_base)

Zero == [k \in 1..NumDigits |-> 0]

\* v << o for a byte v and an offset o that is a multiple of 8
ShiftLeft(v, o) == [k \in 1..NumDigits |-> IF k = (o \div ByteBits) + 1 THEN v ELSE 0]

RECURSIVE AddCarry(_, _, _, _)
AddCarry(a, b, k, carry) ==
  IF k > NumDigits THEN <<>>
  ELSE LET s == a[k] + b[k] + carry
       IN  <<s % Base>> \o AddCarry(a, b, k + 1, s \div Base)

Add(a, b) == AddCarry(a, b, 1, 0)

\* 0x56000000000faa
white_base == <<170, 15, 0, 0, 0, 0, 86, 0>>
\* 0xcc2333
OnValue == <<51, 35, 204, 0, 0, 0, 0, 0>>
\* 0xcc2433
OffValue == <<51, 36, 204, 0, 0, 0, 0, 0>>

\* set_color: rgb_base + sum(v << o for v, o in zip(values, rgb_offsets))
ColorValue(r, g, b) ==
  Add(rgb_base, Add(Add(Add(Zero, ShiftLeft(r, rgb_offsets[1])),
                        ShiftLeft(g, rgb_offsets[2])),
                    ShiftLeft(b, rgb_offsets[3])))

\* set_white: white_base + (value << white_offset)
WhiteValue(w) == Add(white_base, ShiftLeft(w, white_offset))

RECURSIVE BitLen(_)
BitLen(d) == IF d = 0 THEN 0 ELSE 1 + BitLen(d \div 2)

\* int.bit_length()
bit_length(a) ==
  LET nz == {k \in 1..NumDigits : a[k] # 0}
  IN  IF nz = {} THEN 0
      ELSE LET top == CHOOSE k \in nz : \A j \in nz : j <= k
           IN  ByteBits * (top - 1) + BitLen(a[top])

\* to_bytes with byteorder='little'
to_bytes_little(a, n) == [k \in 1..n |-> a[k]]

\* int.to_bytes(n, byteorder='big'); the value always fits in n bytes here
to_bytes(a, n) == [k \in 1..n |-> a[n - k + 1]]

\* _pack: num_bytes = ceil(bit_length / 8); big-endian bytes
Pack(a) == to_bytes(a, (bit_length(a) + ByteBits - 1) \div ByteBits)

(* ------------------------------- state -------------------------------- *)
WIDs == 1..MaxWriters
PIDs == 1..NProducers
Addresses == {"a1", "a2"}
NoAddress == "none"
None == <<>>
Unbound == -1
NoWindow == 0 - 1
\* the values the callers of the concurrency specifications send
CallValues == {OnValue, OffValue}

VARIABLES
  now,                \* wall clock, time.time()
  address,            \* interactor w's / worker w's address, NoAddress before construction
  alive,              \* Thread.is_alive() of worker w
  attempts,           \* worker.attempts
  keepalive_interval, \* worker.keepalive_interval
  queue,              \* worker.queue: items <<handle, payload, tag>>, tag = enqueue number
  failure_count, success_count, loop_count, empty_count,
  pc,                 \* position of worker w's thread in run()/write()
  event,              \* the local `event` of run()/write()
  i,                  \* the local `i` of write(); Unbound before the first iteration
  conn,               \* a connection handle opened by worker w is open
  start,              \* the local `start` of write()
  deadline,           \* when the pending queue.get(timeout=...) gives up
  ppc, pw, pval, perr,\* caller thread p inside _write: position, interactor, value, error logged
  enq,                \* history: the items put into worker w's queue, in order
  taken,              \* history: tags of the items queue.get returned, in order
  written,            \* history: items whose write_handle call returned normally
  done,               \* history: tags of the commands whose write(event) call returned
  timedOut,           \* the item being processed came from queue.Empty
  nConn, nOk, nFail,  \* per item: connection attempts started / succeeded / failed
  called, wargs,      \* per item: write_handle was invoked, and its last arguments
  base_success, base_failure, \* counters when the item's processing began
  slowLog,            \* "took {elapsed}s" was logged for the attempt begun last
  warnLog,            \* attempt count the last item's warning named, 0 when none
  winStart,           \* observer: when the watched enqueue-free period began (the worker
                      \* then waiting on an empty inbox), NoWindow if none
  winCycles,          \* observer: keepalive cycles completed since winStart
  winSlow,            \* observer: some cycle since winStart took over half the interval
  connTotal,          \* history: connection attempts worker w has begun, in all
  nTimeouts,          \* history: calls write(None) of worker w, one per wait that timed out
  call,               \* history: the public method caller p's last call of _write came
                      \* through, with its arguments; <<>> for a direct call of _write
  gpc, gn, gruns, gvalue \* GATTToolRGBWInteractor._write: position, the local n,
                      \* exit statuses of the runs of this call, the value

config == <<address, attempts, keepalive_interval>>
counters == <<failure_count, success_count, loop_count, empty_count>>
clock == <<now, start, deadline>>
callers == <<ppc, pw, pval, perr>>
history == <<enq, taken, written, done>>
perItem == <<timedOut, nConn, nOk, nFail, called, wargs, base_success, base_failure>>
logs == <<slowLog, warnLog>>
window == <<winStart, winCycles, winSlow>>
tallies == <<connTotal, nTimeouts>>
gatt == <<gpc, gn, gruns, gvalue>>
vars == <<config, alive, queue, counters, pc, event, i, conn, clock, callers,
          history, perItem, logs, window, tallies, call, gatt>>

RECURSIVE SumOver(_, _)
SumOver(f, S) ==
  IF S = {} THEN 0
  ELSE LET x == CHOOSE y \in S : TRUE IN f[x] + SumOver(f, S \ {x})

\* fields every constructor sets, for a set S of workers that exist at the start
InitWith(S, att) ==
  /\ now = 0
  /\ address = [w \in WIDs |-> IF w \in S THEN "a1" ELSE NoAddress]
  /\ alive = [w \in WIDs |-> w \in S]
  /\ attempts = [w \in WIDs |-> IF w \in S THEN att ELSE 0]
  /\ keepalive_interval = [w \in WIDs |-> IF w \in S THEN DefaultKeepalive ELSE 0]
  /\ queue = [w \in WIDs |-> <<>>]
  /\ failure_count = [w \in WIDs |-> 0]
  /\ success_count = [w \in WIDs |-> 0]
  /\ loop_count = [w \in WIDs |-> 0]
  /\ empty_count = [w \in WIDs |-> 0]
  /\ pc = [w \in WIDs |-> IF w \in S THEN "loop" ELSE "none"]
  /\ event = [w \in WIDs |-> None]
  /\ i = [w \in WIDs |-> Unbound]
  /\ conn = [w \in WIDs |-> FALSE]
  /\ start = [w \in WIDs |-> 0]
  /\ deadline = [w \in WIDs |-> 0]
  /\ ppc = [p \in PIDs |-> "idle"]
  /\ pw = [p \in PIDs |-> 1]
  /\ pval = [p \in PIDs |-> Zero]
  /\ perr = [p \in PIDs |-> FALSE]
  /\ enq = [w \in WIDs |-> <<>>]
  /\ taken = [w \in WIDs |-> <<>>]
  /\ written = [w \in WIDs |-> <<>>]
  /\ done = [w \in WIDs |-> <<>>]
  /\ timedOut = [w \in WIDs |-> FALSE]
  /\ nConn = [w \in WIDs |-> 0]
  /\ nOk = [w \in WIDs |-> 0]
  /\ nFail = [w \in WIDs |-> 0]
  /\ called = [w \in WIDs |-> FALSE]
  /\ wargs = [w \in WIDs |-> None]
  /\ base_success = [w \in WIDs |-> 0]
  /\ base_failure = [w \in WIDs |-> 0]
  /\ slowLog = [w \in WIDs |-> FALSE]
  /\ warnLog = [w \in WIDs |-> 0]
  /\ winStart = NoWindow
  /\ winCycles = 0
  /\ winSlow = FALSE
  /\ connTotal = [w \in WIDs |-> 0]
  /\ nTimeouts = [w \in WIDs |-> 0]
  /\ call = [p \in PIDs |-> <<>>]
  /\ gpc = "idle"
  /\ gn = Unbound
  /\ gruns = <<>>
  /\ gvalue = Zero

\* a process in which no interactor has been constructed yet
Init == InitWith({}, 0)

(* ------------------------ BtlewrapWorker.run -------------------------- *)
\* LoopTop with the timeout doubled
LoopTopDouble(w) ==
  /\ pc[w] = "loop"
  /\ loop_count' = [loop_count EXCEPT ![w] = @ + 1]
  /\ deadline' = [deadline EXCEPT ![w] = now + 2 * keepalive_interval[w]]
  /\ pc' = [pc EXCEPT ![w] = "get"]
  /\ UNCHANGED <<gatt, call, tallies, config, alive, queue, failure_count, success_count, empty_count,
                 event, i, conn, now, start, callers, history, perItem, logs, window>>

\* while True: self.loop_count += 1, then the call of queue.get begins
LoopTop(w) ==
  /\ pc[w] = "loop"
  /\ loop_count' = [loop_count EXCEPT ![w] = @ + 1]
  /\ deadline' = [deadline EXCEPT ![w] = now + keepalive_interval[w]]
  /\ pc' = [pc EXCEPT ![w] = "get"]
  /\ UNCHANGED <<gatt, call, tallies, config, alive, queue, failure_count, success_count, empty_count,
                 event, i, conn, now, start, callers, history, perItem, logs, window>>

\* a fresh call of write(event): its locals and the per-item history
BeginWrite(w, ev, empty) ==
  /\ event' = [event EXCEPT ![w] = ev]
  /\ i' = [i EXCEPT ![w] = Unbound]
  /\ timedOut' = [timedOut EXCEPT ![w] = empty]
  /\ nConn' = [nConn EXCEPT ![w] = 0]
  /\ nOk' = [nOk EXCEPT ![w] = 0]
  /\ nFail' = [nFail EXCEPT ![w] = 0]
  /\ called' = [called EXCEPT ![w] = FALSE]
  /\ wargs' = [wargs EXCEPT ![w] = None]
  /\ base_success' = [base_success EXCEPT ![w] = success_count[w]]
  /\ base_failure' = [base_failure EXCEPT ![w] = failure_count[w]]
  /\ nTimeouts' = [nTimeouts EXCEPT ![w] = IF empty THEN @ + 1 ELSE @]
  /\ pc' = [pc EXCEPT ![w] = "for"]

\* GetItem as a LifoQueue would have it: the newest item is returned
GetItemLifo(w) ==
  /\ pc[w] = "get"
  /\ queue[w] # <<>>
  /\ queue' = [queue EXCEPT ![w] = SubSeq(@, 1, Len(@) - 1)]
  /\ taken' = [taken EXCEPT ![w] = Append(@, queue[w][Len(queue[w])][3])]
  /\ BeginWrite(w, queue[w][Len(queue[w])], FALSE)
  /\ UNCHANGED <<gatt, call, connTotal, config, alive, counters, conn, clock, callers, enq, written, done, logs, window>>

\* GetItem that empties the queue: the items behind the head are lost
GetItemDrain(w) ==
  /\ pc[w] = "get"
  /\ queue[w] # <<>>
  /\ queue' = [queue EXCEPT ![w] = <<>>]
  /\ taken' = [taken EXCEPT ![w] = Append(@, Head(queue[w])[3])]
  /\ BeginWrite(w, Head(queue[w]), FALSE)
  /\ UNCHANGED <<gatt, call, connTotal, config, alive, counters, conn, clock, callers, enq, written, done, logs, window>>

\* event = self.queue.get(timeout=...) returns the head of the queue
GetItem(w) ==
  /\ pc[w] = "get"
  /\ queue[w] # <<>>
  /\ queue' = [queue EXCEPT ![w] = Tail(@)]
  /\ taken' = [taken EXCEPT ![w] = Append(@, Head(queue[w])[3])]
  /\ BeginWrite(w, Head(queue[w]), FALSE)
  /\ UNCHANGED <<gatt, call, connTotal, config, alive, counters, conn, clock, callers, enq, written, done, logs, window>>

\* GetTimeout without `event = None`: the previous event stays bound
GetTimeoutStale(w) ==
  /\ pc[w] = "get"
  /\ queue[w] = <<>>
  /\ empty_count' = [empty_count EXCEPT ![w] = @ + 1]
  /\ BeginWrite(w, event[w], TRUE)
  /\ UNCHANGED <<gatt, call, connTotal, config, alive, queue, failure_count, success_count, loop_count,
                 conn, clock, callers, history, logs, window>>

\* GetTimeout without `self.empty_count += 1`
GetTimeoutUncounted(w) ==
  /\ pc[w] = "get"
  /\ queue[w] = <<>>
  /\ BeginWrite(w, None, TRUE)
  /\ UNCHANGED <<gatt, call, connTotal, config, alive, queue, counters,
                 conn, clock, callers, history, logs, window>>

\* except queue.Empty: self.empty_count += 1; event = None
GetTimeout(w) ==
  /\ pc[w] = "get"
  /\ queue[w] = <<>>
  /\ empty_count' = [empty_count EXCEPT ![w] = @ + 1]
  /\ BeginWrite(w, None, TRUE)
  /\ UNCHANGED <<gatt, call, connTotal, config, alive, queue, failure_count, success_count, loop_count,
                 conn, clock, callers, history, logs, window>>

(* ----------------------- BtlewrapWorker.write ------------------------- *)
\* ForNext that raises ActionFailed once the attempts are used up
ForNextRaise(w) ==
  /\ pc[w] = "for"
  /\ IF i[w] + 1 < attempts[w]
     THEN /\ i' = [i EXCEPT ![w] = @ + 1]
          /\ start' = [start EXCEPT ![w] = now]
          /\ nConn' = [nConn EXCEPT ![w] = @ + 1]
          /\ connTotal' = [connTotal EXCEPT ![w] = @ + 1]
          /\ slowLog' = [slowLog EXCEPT ![w] = FALSE]
          /\ pc' = [pc EXCEPT ![w] = "connect"]
          /\ UNCHANGED alive
     ELSE /\ pc' = [pc EXCEPT ![w] = "dead"]
          /\ alive' = [alive EXCEPT ![w] = FALSE]
          /\ UNCHANGED <<i, start, nConn, connTotal, slowLog>>
  /\ UNCHANGED <<gatt, call, nTimeouts, config, queue, counters, event, conn, now, deadline, callers,
                 history, timedOut, nOk, nFail, called, wargs, base_success,
                 base_failure, warnLog, window>>

\* ForNext with range(self.attempts + 1): one attempt too many
ForNextOneMore(w) ==
  /\ pc[w] = "for"
  /\ IF i[w] + 1 < attempts[w] + 1
     THEN /\ i' = [i EXCEPT ![w] = @ + 1]
          /\ start' = [start EXCEPT ![w] = now]
          /\ nConn' = [nConn EXCEPT ![w] = @ + 1]
          /\ connTotal' = [connTotal EXCEPT ![w] = @ + 1]
          /\ slowLog' = [slowLog EXCEPT ![w] = FALSE]
          /\ pc' = [pc EXCEPT ![w] = "connect"]
     ELSE /\ pc' = [pc EXCEPT ![w] = "warn"]
          /\ UNCHANGED <<i, start, nConn, connTotal, slowLog>>
  /\ UNCHANGED <<gatt, call, nTimeouts, config, alive, queue, counters, event, conn, now, deadline, callers,
                 history, timedOut, nOk, nFail, called, wargs, base_success,
                 base_failure, warnLog, window>>

\* ForNext as `while True`: attempts go on until one succeeds
ForNextUnbounded(w) ==
  /\ pc[w] = "for"
  /\ IF nOk[w] = 0
     THEN /\ i' = [i EXCEPT ![w] = @ + 1]
          /\ start' = [start EXCEPT ![w] = now]
          /\ nConn' = [nConn EXCEPT ![w] = @ + 1]
          /\ connTotal' = [connTotal EXCEPT ![w] = @ + 1]
          /\ slowLog' = [slowLog EXCEPT ![w] = FALSE]
          /\ pc' = [pc EXCEPT ![w] = "connect"]
     ELSE /\ pc' = [pc EXCEPT ![w] = "warn"]
          /\ UNCHANGED <<i, start, nConn, connTotal, slowLog>>
  /\ UNCHANGED <<gatt, call, nTimeouts, config, alive, queue, counters, event, conn, now, deadline, callers,
                 history, timedOut, nOk, nFail, called, wargs, base_success,
                 base_failure, warnLog, window>>

\* for i in range(self.attempts): the next iteration (start = time.time()),
\* or the loop is exhausted
ForNext(w) ==
  /\ pc[w] = "for"
  /\ IF i[w] + 1 < attempts[w]
     THEN /\ i' = [i EXCEPT ![w] = @ + 1]
          /\ start' = [start EXCEPT ![w] = now]
          /\ nConn' = [nConn EXCEPT ![w] = @ + 1]
          /\ connTotal' = [connTotal EXCEPT ![w] = @ + 1]
          /\ slowLog' = [slowLog EXCEPT ![w] = FALSE]
          /\ pc' = [pc EXCEPT ![w] = "connect"]
     ELSE /\ pc' = [pc EXCEPT ![w] = "warn"]
          /\ UNCHANGED <<i, start, nConn, connTotal, slowLog>>
  /\ UNCHANGED <<gatt, call, nTimeouts, config, alive, queue, counters, event, conn, now, deadline, callers,
                 history, timedOut, nOk, nFail, called, wargs, base_success,
                 base_failure, warnLog, window>>

\* with self.interface.connect(self.address) as connection: the backend connects
ConnectOk(w) ==
  /\ pc[w] = "connect"
  /\ conn' = [conn EXCEPT ![w] = TRUE]
  /\ pc' = [pc EXCEPT ![w] = "connected"]
  /\ UNCHANGED <<gatt, call, tallies, config, alive, queue, counters, event, i, clock, callers, history,
                 perItem, logs, window>>

\* connect raises BluetoothBackendException: no connection was opened
ConnectFail(w) ==
  /\ pc[w] = "connect"
  /\ nFail' = [nFail EXCEPT ![w] = @ + 1]
  /\ pc' = [pc EXCEPT ![w] = "except"]
  /\ UNCHANGED <<gatt, call, tallies, config, alive, queue, counters, event, i, conn, clock, callers,
                 history, timedOut, nConn, nOk, called, wargs, base_success,
                 base_failure, logs, window>>

\* if event: connection.write_handle(*event) returns normally
WriteHandleOk(w) ==
  /\ pc[w] = "connected"
  /\ event[w] # None
  /\ called' = [called EXCEPT ![w] = TRUE]
  /\ wargs' = [wargs EXCEPT ![w] = <<event[w][1], event[w][2]>>]
  /\ written' = [written EXCEPT ![w] = Append(@, event[w])]
  /\ nOk' = [nOk EXCEPT ![w] = @ + 1]
  /\ pc' = [pc EXCEPT ![w] = "exit"]
  /\ UNCHANGED <<gatt, call, tallies, config, alive, queue, counters, event, i, conn, clock, callers,
                 enq, taken, done, timedOut, nConn, nFail, base_success, base_failure,
                 logs, window>>

\* WriteHandleFail without the with block: the handle stays open
WriteHandleFailLeak(w) ==
  /\ pc[w] = "connected"
  /\ event[w] # None
  /\ called' = [called EXCEPT ![w] = TRUE]
  /\ wargs' = [wargs EXCEPT ![w] = <<event[w][1], event[w][2]>>]
  /\ nFail' = [nFail EXCEPT ![w] = @ + 1]
  /\ pc' = [pc EXCEPT ![w] = "except"]
  /\ UNCHANGED <<gatt, call, tallies, config, alive, queue, counters, event, i, conn, clock, callers,
                 history, timedOut, nConn, nOk, base_success, base_failure, logs, window>>

\* write_handle raises BluetoothBackendException; leaving the with block
\* releases the connection before the except clause runs
WriteHandleFail(w) ==
  /\ pc[w] = "connected"
  /\ event[w] # None
  /\ called' = [called EXCEPT ![w] = TRUE]
  /\ wargs' = [wargs EXCEPT ![w] = <<event[w][1], event[w][2]>>]
  /\ nFail' = [nFail EXCEPT ![w] = @ + 1]
  /\ conn' = [conn EXCEPT ![w] = FALSE]
  /\ pc' = [pc EXCEPT ![w] = "except"]
  /\ UNCHANGED <<gatt, call, tallies, config, alive, queue, counters, event, i, clock, callers, history,
                 timedOut, nConn, nOk, base_success, base_failure, logs, window>>

\* if event: is false (keepalive): the with body does nothing
NoPayload(w) ==
  /\ pc[w] = "connected"
  /\ event[w] = None
  /\ nOk' = [nOk EXCEPT ![w] = @ + 1]
  /\ pc' = [pc EXCEPT ![w] = "exit"]
  /\ UNCHANGED <<gatt, call, tallies, config, alive, queue, counters, event, i, conn, clock, callers,
                 history, timedOut, nConn, nFail, called, wargs, base_success,
                 base_failure, logs, window>>

\* ExitOk without `break`: the for loop goes on after a success
ExitOkNoBreak(w) ==
  /\ pc[w] = "exit"
  /\ conn' = [conn EXCEPT ![w] = FALSE]
  /\ success_count' = [success_count EXCEPT ![w] = @ + 1]
  /\ pc' = [pc EXCEPT ![w] = "for"]
  /\ UNCHANGED <<gatt, call, tallies, config, alive, queue, failure_count, loop_count, empty_count, event,
                 i, clock, callers, history, perItem, logs, window>>

\* the with block exits normally: release; self.success_count += 1; break
ExitOk(w) ==
  /\ pc[w] = "exit"
  /\ conn' = [conn EXCEPT ![w] = FALSE]
  /\ success_count' = [success_count EXCEPT ![w] = @ + 1]
  /\ pc' = [pc EXCEPT ![w] = "warn"]
  /\ UNCHANGED <<gatt, call, tallies, config, alive, queue, failure_count, loop_count, empty_count, event,
                 i, clock, callers, history, perItem, logs, window>>

\* except BluetoothBackendException: self.failure_count += 1; then
\* elapsed = time.time() - start; if elapsed > 10: log
Except(w) ==
  /\ pc[w] = "except"
  /\ failure_count' = [failure_count EXCEPT ![w] = @ + 1]
  /\ slowLog' = [slowLog EXCEPT ![w] = (now - start[w] > SlowLimit)]
  /\ pc' = [pc EXCEPT ![w] = "for"]
  /\ UNCHANGED <<gatt, call, tallies, config, alive, queue, success_count, loop_count, empty_count, event,
                 i, conn, clock, callers, history, perItem, warnLog, window>>

\* observer: write(event) returns while an enqueue-free period is watched.
\* A keepalive's wait ended at its deadline, so the cycle took now - deadline.
CycleEnds(w) ==
  IF winStart # NoWindow /\ timedOut[w]
  THEN /\ winCycles' = winCycles + 1
       /\ winSlow' = (winSlow \/ 2 * (now - deadline[w]) > keepalive_interval[w])
       /\ UNCHANGED winStart
  ELSE UNCHANGED window

\* if i > 10: warning. With i never bound (range(0)) the read of i raises
\* UnboundLocalError, which nothing catches: the thread ends.
Warn(w) ==
  /\ pc[w] = "warn"
  /\ IF i[w] = Unbound
     THEN /\ alive' = [alive EXCEPT ![w] = FALSE]
          /\ pc' = [pc EXCEPT ![w] = "dead"]
          /\ UNCHANGED <<warnLog, done, window>>
     ELSE /\ CycleEnds(w)
          /\ warnLog' = [warnLog EXCEPT ![w] = IF i[w] > WarnLimit THEN i[w] + 1 ELSE 0]
          /\ done' = [done EXCEPT ![w] = IF event[w] = None THEN @ ELSE Append(@, event[w][3])]
          /\ pc' = [pc EXCEPT ![w] = "loop"]
          /\ UNCHANGED alive
  /\ UNCHANGED <<gatt, call, tallies, config, queue, counters, event, i, conn, clock, callers, enq, taken,
                 written, perItem, slowLog>>

\* the backend raises something that is no BluetoothBackendException, from
\* connect or from write_handle: the with block releases, nothing catches it
Fault(w) ==
  /\ pc[w] \in {"connect", "connected"}
  /\ pc[w] = "connected" => event[w] # None
  /\ conn' = [conn EXCEPT ![w] = FALSE]
  /\ alive' = [alive EXCEPT ![w] = FALSE]
  /\ pc' = [pc EXCEPT ![w] = "dead"]
  /\ UNCHANGED <<gatt, call, tallies, config, queue, counters, event, i, clock, callers, history,
                 perItem, logs, window>>

\* the steps of worker w's thread, with time left out: the wait may time out
\* whenever the inbox is empty
WorkerStep(w) ==
  \/ LoopTop(w)
  \/ GetItem(w)
  \/ GetTimeout(w) /\ SumOver(empty_count, WIDs) < MaxEmpty
  \/ ForNext(w)
  \/ ConnectOk(w)
  \/ ConnectFail(w) /\ SumOver(nFail, WIDs) < MaxFailures
  \/ WriteHandleOk(w)
  \/ WriteHandleFail(w) /\ SumOver(nFail, WIDs) < MaxFailures
  \/ NoPayload(w)
  \/ ExitOk(w)
  \/ Except(w)
  \/ Warn(w)

(* ----------------------- BtlewrapRGBWInteractor ----------------------- *)
\* __init__: the interactor, its worker (keepalive_interval=2, attempts=100),
\* and worker.start(). Interactors are numbered in construction order.
Construct(w, a) ==
  /\ pc[w] = "none"
  /\ \A v \in WIDs : v < w => pc[v] # "none"
  /\ address' = [address EXCEPT ![w] = a]
  /\ attempts' = [attempts EXCEPT ![w] = DefaultAttempts]
  /\ keepalive_interval' = [keepalive_interval EXCEPT ![w] = DefaultKeepalive]
  /\ alive' = [alive EXCEPT ![w] = TRUE]
  /\ pc' = [pc EXCEPT ![w] = "loop"]
  /\ UNCHANGED <<gatt, call, tallies, queue, counters, event, i, conn, clock, callers, history, perItem, logs, window>>

\* calls of _write that have not yet put their item
InFlight == Cardinality({p \in PIDs : ppc[p] = "put"})

\* _write, first part: if not self.worker.is_alive(): LOGGER.error(...)
\* Caller threads are interchangeable: the lowest-numbered idle one makes
\* the next call.
WriteEnter(p, w, v) ==
  /\ ppc[p] = "idle"
  /\ \A q \in PIDs : q < p => ppc[q] # "idle"
  /\ address[w] # NoAddress
  /\ SumOver([x \in WIDs |-> Len(enq[x])], WIDs) + InFlight < MaxEnq
  /\ perr' = [perr EXCEPT ![p] = ~alive[w]]
  /\ pw' = [pw EXCEPT ![p] = w]
  /\ pval' = [pval EXCEPT ![p] = v]
  /\ ppc' = [ppc EXCEPT ![p] = "put"]
  /\ UNCHANGED <<gatt, tallies, config, alive, queue, counters, pc, event, i, conn, clock, history,
                 perItem, logs, window>>

\* _write called directly with the value v
WriteCheck(p, w, v) ==
  /\ WriteEnter(p, w, v)
  /\ call' = [call EXCEPT ![p] = <<>>]

\* the public methods of RGBWInteractor, on a BtlewrapRGBWInteractor: each
\* computes its value and calls _write with it
set_on(p, w) ==
  /\ WriteEnter(p, w, OnValue)
  /\ call' = [call EXCEPT ![p] = <<"set_on">>]

set_off(p, w) ==
  /\ WriteEnter(p, w, OffValue)
  /\ call' = [call EXCEPT ![p] = <<"set_off">>]

set_color(p, w, r, g, b) ==
  /\ WriteEnter(p, w, ColorValue(r, g, b))
  /\ call' = [call EXCEPT ![p] = <<"set_color", r, g, b>>]

set_white(p, w, x) ==
  /\ WriteEnter(p, w, WhiteValue(x))
  /\ call' = [call EXCEPT ![p] = <<"set_white", x>>]

\* an enqueue ends the watched enqueue-free period
EndWindow ==
  /\ winStart' = NoWindow
  /\ winCycles' = 0
  /\ winSlow' = FALSE

\* WritePut that gives up when the worker is dead
WritePutIfAlive(p) ==
  LET w == pw[p]
      item == <<control_handle, Pack(pval[p]), Len(enq[w]) + 1>>
  IN  /\ ppc[p] = "put"
      /\ queue' = [queue EXCEPT ![w] = IF alive[w] THEN Append(@, item) ELSE @]
      /\ enq' = [enq EXCEPT ![w] = IF alive[w] THEN Append(@, item) ELSE @]
      /\ ppc' = [ppc EXCEPT ![p] = "idle"]
      /\ pval' = [pval EXCEPT ![p] = Zero]
      /\ EndWindow
      /\ UNCHANGED <<gatt, call, tallies, config, alive, counters, pc, event, i, conn, clock, pw, perr,
                     taken, written, done, perItem, logs>>

\* _write, last line: self.worker.queue.put((self.control_handle, self._pack(value)))
WritePut(p) ==
  LET w == pw[p]
      item == <<control_handle, Pack(pval[p]), Len(enq[w]) + 1>>
  IN  /\ ppc[p] = "put"
      /\ queue' = [queue EXCEPT ![w] = Append(@, item)]
      /\ enq' = [enq EXCEPT ![w] = Append(@, item)]
      /\ ppc' = [ppc EXCEPT ![p] = "idle"]
      /\ pval' = [pval EXCEPT ![p] = Zero]
      /\ EndWindow
      /\ UNCHANGED <<gatt, call, tallies, config, alive, counters, pc, event, i, conn, clock, pw, perr,
                     taken, written, done, perItem, logs>>

(* ----------------------- GATTToolRGBWInteractor ----------------------- *)
\* exit statuses of the gatttool process
ExitCodes == {0, 1, 2}
\* the values the synchronous interactor is asked to send
GattValues == {OnValue, OffValue, ColorValue(255, 0, 0), WhiteValue(255)}

\* _write(value) is called: the two log lines and the command list
GattWrite(v) ==
  /\ gpc = "idle"
  /\ gvalue' = v
  /\ gn' = Unbound
  /\ gruns' = <<>>
  /\ gpc' = "for"
  /\ UNCHANGED <<config, alive, queue, counters, pc, event, i, conn, clock, callers,
                 history, perItem, logs, window, tallies, call>>

\* GattForNext that raises ActionFailed once the 5 runs are used up
GattForNextRaise ==
  /\ gpc = "for"
  /\ IF gn + 1 < GattAttempts
     THEN /\ gn' = gn + 1
          /\ gpc' = "run"
     ELSE /\ gpc' = "raised"
          /\ UNCHANGED gn
  /\ UNCHANGED <<config, alive, queue, counters, pc, event, i, conn, clock, callers,
                 history, perItem, logs, window, tallies, call, gruns, gvalue>>

\* for n in range(5): the next iteration, or the loop is exhausted and
\* _write returns
GattForNext ==
  /\ gpc = "for"
  /\ IF gn + 1 < GattAttempts
     THEN /\ gn' = gn + 1
          /\ gpc' = "run"
     ELSE /\ gpc' = "idle"
          /\ UNCHANGED gn
  /\ UNCHANGED <<config, alive, queue, counters, pc, event, i, conn, clock, callers,
                 history, perItem, logs, window, tallies, call, gruns, gvalue>>

\* subprocess.run(command, check=True) returns (exit status 0); break: _write
\* returns
GattRunOk ==
  /\ gpc = "run"
  /\ gruns' = Append(gruns, 0)
  /\ gpc' = "idle"
  /\ UNCHANGED <<config, alive, queue, counters, pc, event, i, conn, clock, callers,
                 history, perItem, logs, window, tallies, call, gn, gvalue>>

\* subprocess.run raises CalledProcessError (exit status c # 0); the except
\* clause logs the failed attempt
GattRunFail(c) ==
  /\ gpc = "run"
  /\ c # 0
  /\ gruns' = Append(gruns, c)
  /\ gpc' = "for"
  /\ UNCHANGED <<config, alive, queue, counters, pc, event, i, conn, clock, callers,
                 history, perItem, logs, window, tallies, call, gn, gvalue>>

(* --------------------------- specifications --------------------------- *)
\* a process that constructs interactors and calls them from several threads;
\* the backend may also raise an exception outside its contract
Next ==
  \/ \E w \in WIDs, a \in Addresses : Construct(w, a)
  \/ \E p \in PIDs, w \in WIDs, v \in CallValues : WriteCheck(p, w, v)
  \/ \E p \in PIDs : WritePut(p)
  \/ \E w \in WIDs : WorkerStep(w) /\ SumOver(loop_count', WIDs) <= ProcessLoops
  \/ \E w \in WIDs : Fault(w)

Spec == Init /\ [][Next]_vars

\* one worker constructed directly, BtlewrapWorker(address, 2, attempts), and
\* started; callers submit through an interactor that holds it; the backend
\* keeps to its contract (success or BluetoothBackendException)
InitWorker == \E att \in (0..MaxFailures) \cup {DefaultAttempts} : InitWith({1}, att)

NextWorker ==
  \/ \E p \in PIDs, v \in CallValues : WriteCheck(p, 1, v)
  \/ \E p \in PIDs : WritePut(p)
  \/ WorkerStep(1)

SpecWorker == InitWorker /\ [][NextWorker]_vars

\* the same worker, every caller sending set_on; the scheduler runs the
\* worker thread whenever it can take a step
NextWorkerOn ==
  \/ \E p \in PIDs : WriteCheck(p, 1, OnValue)
  \/ \E p \in PIDs : WritePut(p)
  \/ WorkerStep(1)

SpecWorkerFair == InitWorker /\ [][NextWorkerOn]_vars /\ WF_vars(WorkerStep(1))

\* one interactor and its worker (attempts=100); the backend may also raise
\* an exception outside its contract, which ends the worker thread
InitFacade == InitWith({1}, DefaultAttempts)

NextFacade ==
  \/ NextWorker
  \/ Fault(1)

SpecFacade == InitFacade /\ [][NextFacade]_vars

(* ------------------------------ with time ---------------------------- *)
\* the steps of worker w's thread with the clock: queue.get gives up exactly
\* when its timeout has run out
TimedWorkerStep(w) ==
  \/ LoopTop(w)
  \/ GetItem(w)
  \/ GetTimeout(w) /\ now >= deadline[w]
  \/ ForNext(w)
  \/ ConnectOk(w)
  \/ ConnectFail(w) /\ SumOver(failure_count, WIDs) < MaxFailures
  \/ WriteHandleOk(w)
  \/ WriteHandleFail(w) /\ SumOver(failure_count, WIDs) < MaxFailures
  \/ NoPayload(w)
  \/ ExitOk(w)
  \/ Except(w)
  \/ Warn(w)

\* time passes while worker w waits in queue.get with its timeout running, or
\* is inside the with statement (backend I/O, of no bounded duration); its
\* other steps take no time
MayWait(w) ==
  \/ pc[w] \in {"none", "dead"}
  \/ pc[w] = "get" /\ queue[w] = <<>> /\ now < deadline[w]
  \/ pc[w] \in {"connect", "connected", "exit"}

Elapse(limit) ==
  /\ now < limit
  /\ \A w \in WIDs : MayWait(w)
  /\ now' = now + 1
  /\ UNCHANGED <<gatt, call, tallies, config, alive, queue, counters, pc, event, i, conn, start, deadline,
                 callers, history, perItem, logs, window>>

Tick == Elapse(MaxTime)

\* observer: start watching an enqueue-free period, at any moment at which
\* the worker waits on an empty inbox
MarkWindow ==
  /\ winStart = NoWindow
  /\ pc[1] = "get"
  /\ queue[1] = <<>>
  /\ winStart' = now
  /\ winCycles' = 0
  /\ winSlow' = FALSE
  /\ UNCHANGED <<gatt, call, tallies, config, alive, queue, counters, pc, event, i, conn, clock, callers,
                 history, perItem, logs>>

NextTimed ==
  \/ \E p \in PIDs : WriteCheck(p, 1, OnValue)
  \/ \E p \in PIDs : WritePut(p)
  \/ TimedWorkerStep(1)
  \/ Tick
  \/ MarkWindow

\* one interactor and its worker (keepalive_interval=2, attempts=100) under
\* a clock
SpecTimed == InitFacade /\ [][NextTimed]_vars

(* ---------------------------- slow attempts -------------------------- *)
\* one interactor and its worker under a clock that runs long enough for a
\* single attempt to take more than 10 time units
NextSlow ==
  \/ \E p \in PIDs : WriteCheck(p, 1, OnValue)
  \/ \E p \in PIDs : WritePut(p)
  \/ TimedWorkerStep(1)
  \/ Elapse(SlowTime)

SpecSlow == InitFacade /\ [][NextSlow]_vars

(* ----------------------------- long retries -------------------------- *)
\* the steps of worker w's thread, time left out, with a backend that fails
\* up to ItemFailures times for each item
PatientWorkerStep(w) ==
  \/ LoopTop(w)
  \/ GetItem(w)
  \/ GetTimeout(w) /\ SumOver(empty_count, WIDs) < MaxEmpty
  \/ ForNext(w)
  \/ ConnectOk(w)
  \/ ConnectFail(w) /\ nFail[w] < ItemFailures
  \/ WriteHandleOk(w)
  \/ WriteHandleFail(w) /\ nFail[w] < ItemFailures
  \/ NoPayload(w)
  \/ ExitOk(w)
  \/ Except(w)
  \/ Warn(w)

\* a worker constructed directly with attempts around the warning limit, or
\* the interactor's 100
InitPatient ==
  \E att \in ((WarnLimit - 1)..(WarnLimit + 3)) \cup {DefaultAttempts} : InitWith({1}, att)

NextPatient ==
  \/ \E p \in PIDs : WriteCheck(p, 1, OnValue)
  \/ \E p \in PIDs : WritePut(p)
  \/ PatientWorkerStep(1)

SpecPatient == InitPatient /\ [][NextPatient]_vars

(* ------------------------- synchronous interactor --------------------- *)
\* a GATTToolRGBWInteractor called from one thread; every run of the tool
\* ends with an exit status
NextGatt ==
  \/ \E v \in GattValues : GattWrite(v)
  \/ GattForNext
  \/ GattRunOk
  \/ \E c \in ExitCodes : GattRunFail(c)

SpecGatt == Init /\ [][NextGatt]_vars

(* ------------------------------ encoding ------------------------------ *)
\* argument values of set_color and set_white
Bytes == 0..(Base - 1)
Extremes == {0, Base - 1}
\* every value of one channel with the extremes of the two others
ColorInputs ==
  (Bytes \X Extremes \X Extremes) \cup (Extremes \X Bytes \X Extremes)
    \cup (Extremes \X Extremes \X Bytes)
\* the integer 0x1
One == [k \in 1..NumDigits |-> IF k = 1 THEN 1 ELSE 0]

NoCallYet == enq[1] = <<>> /\ InFlight = 0

\* one call of a public method, or of _write(0x1), on a fresh interactor by
\* one caller; the worker thread is not scheduled in between
NextEncode ==
  \/ \E p \in PIDs : NoCallYet /\ set_on(p, 1)
  \/ \E p \in PIDs : NoCallYet /\ set_off(p, 1)
  \/ \E p \in PIDs, t \in ColorInputs : NoCallYet /\ set_color(p, 1, t[1], t[2], t[3])
  \/ \E p \in PIDs, x \in Bytes : NoCallYet /\ set_white(p, 1, x)
  \/ \E p \in PIDs : NoCallYet /\ WriteCheck(p, 1, One)
  \/ \E p \in PIDs : WritePut(p)

SpecEncode == InitFacade /\ [][NextEncode]_vars

(* ------------------------------- claims ------------------------------- *)
Tags(q) == [k \in 1..Len(q) |-> q[k][3]]
StrictlyIncreasing(q) == \A j, k \in 1..Len(q) : j < k => q[j] < q[k]
InAttempt(w) == pc[w] \in {"connect", "connected", "exit", "except"}

\* C1: the commands written to the peripheral are a subsequence of the
\* enqueue order, each enqueued command is dequeued at most once and in
\* enqueue order, none is merged or altered, and while an attempt for a
\* command B is in progress every command enqueued before B has had its
\* write(event) call return (applied or dropped).
C1_Fifo ==
  \A w \in WIDs :
    /\ taken[w] = [k \in 1..Len(taken[w]) |-> k]
    /\ queue[w] = SubSeq(enq[w], Len(taken[w]) + 1, Len(enq[w]))
    /\ StrictlyIncreasing(Tags(written[w]))
    /\ \A k \in 1..Len(written[w]) : written[w][k] = enq[w][written[w][k][3]]
    /\ StrictlyIncreasing(done[w])
    /\ (InAttempt(w) /\ event[w] # None) =>
         \A a \in 1..(event[w][3] - 1) : \E k \in 1..Len(done[w]) : done[w][k] = a

\* two different commands were enqueued, dequeued and written, and both
\* write(event) calls have returned
C1_Witness ==
  /\ Len(written[1]) = 2
  /\ written[1][1][2] # written[1][2][2]
  /\ Len(done[1]) = 2

\* C2: an item whose first k attempts fail and whose next attempt succeeds
\* (k < attempts) is attempted k + 1 times and no more, succeeds once, its
\* payload is written once, success_count grows by 1, failure_count by k.
C2_RetryThenSuccess ==
  \A w \in WIDs :
    nOk[w] >= 1 =>
      /\ nOk[w] = 1
      /\ nConn[w] = nFail[w] + 1
      /\ nFail[w] < attempts[w]
      /\ pc[w] \in {"exit", "warn", "loop", "get"}
      /\ pc[w] # "exit" =>
           /\ success_count[w] = base_success[w] + 1
           /\ failure_count[w] = base_failure[w] + nFail[w]
      /\ ~timedOut[w] =>
           Cardinality({k \in 1..Len(written[w]) : written[w][k] = event[w]}) = 1

\* attempts = 3: two failures, then the command is applied; the worker is
\* back at the top of its loop
C2_Witness ==
  /\ attempts[1] = 3
  /\ nFail[1] = 2
  /\ nOk[1] = 1
  /\ ~timedOut[1]
  /\ pc[1] = "loop"
  /\ success_count[1] = base_success[1] + 1
  /\ failure_count[1] = base_failure[1] + 2

\* C3: with attempts = N >= 1, an item none of whose attempts succeeds is
\* given up after exactly N attempts: success_count is unchanged,
\* failure_count has grown by N, nothing of it was written, and the worker
\* thread is alive and goes back to its loop.
C3_AllFail ==
  \A w \in WIDs :
    ( /\ attempts[w] >= 1
      /\ nConn[w] >= 1
      /\ nOk[w] = 0
      /\ pc[w] \in {"warn", "loop", "get", "dead"} ) =>
      /\ nConn[w] = attempts[w]
      /\ nFail[w] = attempts[w]
      /\ success_count[w] = base_success[w]
      /\ failure_count[w] = base_failure[w] + attempts[w]
      /\ alive[w]
      /\ pc[w] # "dead"
      /\ event[w] # None => \A k \in 1..Len(written[w]) : written[w][k] # event[w]

\* attempts = 3: a command was dropped after three failures and the worker
\* waits on the inbox again
C3_Witness ==
  /\ attempts[1] = 3
  /\ nFail[1] = 3
  /\ nConn[1] = 3
  /\ nOk[1] = 0
  /\ ~timedOut[1]
  /\ pc[1] = "get"
  /\ done[1] # <<>>
  /\ written[1] = <<>>

\* C4: per address, at most one connection handle is open and exactly one
\* worker thread has been started, however many interactors exist.
C4_OnePerAddress ==
  \A a \in Addresses :
    /\ Cardinality({w \in WIDs : address[w] = a /\ conn[w]}) <= 1
    /\ (\E w \in WIDs : address[w] = a) =>
         Cardinality({w \in WIDs : address[w] = a}) = 1

\* C5: a connection handle is open only inside the with block: never while
\* the worker waits on the inbox, never at the start of an attempt, never
\* after an attempt ended (success, connect failure, write failure), never
\* after the thread died.
C5_ConnScoped ==
  \A w \in WIDs : conn[w] => pc[w] \in {"connected", "exit"}

\* a write_handle call has failed and the handle is closed when the except
\* clause runs
C5_Witness ==
  /\ pc[1] = "except"
  /\ called[1]
  /\ ~conn[1]

\* the two steps of a _write call, as seen on the worker: the check logs the
\* error exactly when the worker is not alive and changes nothing of the
\* worker; the put appends exactly one (control handle, packed value) item at
\* the tail of that worker's inbox and changes nothing else of any worker
C6_WriteStep ==
  \A p \in PIDs :
    /\ (ppc[p] = "idle" /\ ppc'[p] = "put") =>
         /\ perr'[p] = ~alive[pw'[p]]
         /\ queue' = queue /\ alive' = alive /\ pc' = pc
    /\ (ppc[p] = "put" /\ ppc'[p] = "idle") =>
         /\ Len(queue'[pw[p]]) = Len(queue[pw[p]]) + 1
         /\ SubSeq(queue'[pw[p]], 1, Len(queue[pw[p]])) = queue[pw[p]]
         /\ queue'[pw[p]][Len(queue'[pw[p]])][1] = control_handle
         /\ queue'[pw[p]][Len(queue'[pw[p]])][2] = Pack(pval[p])
         /\ \A w \in WIDs \ {pw[p]} : queue'[w] = queue[w]
         /\ alive' = alive /\ pc' = pc

\* C6: _write never blocks or raises and always enqueues: in every worker
\* state (waiting, mid-retry, dead) a call that has made its check can put
\* its item; the check logs the error exactly when the worker is not alive;
\* the put appends exactly one (control handle, packed value) item; no step
\* of the call restarts or otherwise changes the worker.
C6_WriteReturns ==
  /\ [](\A p \in PIDs : ppc[p] = "put" => ENABLED WritePut(p))
  /\ [][C6_WriteStep]_vars

\* a call made on a dead worker has logged the error, returned, and left its
\* item in the inbox
C6_Witness ==
  \E p \in PIDs :
    /\ ppc[p] = "idle"
    /\ perr[p]
    /\ ~alive[pw[p]]
    /\ pc[pw[p]] = "dead"
    /\ queue[pw[p]] # <<>>

\* C7: while the item in progress is a keepalive, write_handle is not
\* invoked; when it is invoked, the item in progress is the command dequeued
\* last and the arguments are that command's handle and payload.
C7_KeepaliveNoWrite ==
  \A w \in WIDs :
    /\ timedOut[w] => ~called[w] /\ wargs[w] = None
    /\ called[w] =>
         /\ ~timedOut[w]
         /\ taken[w] # <<>>
         /\ LET last == enq[w][taken[w][Len(taken[w])]]
            IN  wargs[w] = <<last[1], last[2]>>

\* a keepalive cycle connected and released after a command had been written
C7_Witness ==
  /\ timedOut[1]
  /\ nOk[1] = 1
  /\ pc[1] = "loop"
  /\ written[1] # <<>>
  /\ ~called[1]

\* C9: a worker thread that was started is alive in every reachable state,
\* for every attempts value >= 0, when the backend keeps to its contract.
C9_NeverDies ==
  \A w \in WIDs : pc[w] # "none" => alive[w] /\ pc[w] # "dead"

\* C10: with attempts >= 1, every command put into the inbox is eventually
\* dequeued and its write(event) call returns (applied or dropped), and the
\* worker is back in queue.get.
C10_Progress ==
  \A k \in 1..MaxEnq :
    (attempts[1] >= 1 /\ Len(enq[1]) >= k) ~>
      (pc[1] = "get" /\ \E j \in 1..Len(done[1]) : done[1][j] = k)

\* two commands were each dropped after all attempts failed and the worker
\* waits on the inbox again
C10_Witness ==
  /\ attempts[1] >= 1
  /\ done[1] = <<1, 2>>
  /\ written[1] = <<>>
  /\ failure_count[1] >= 2 * attempts[1]
  /\ pc[1] = "get"

\* a keepalive cycle of worker w that is in progress has already taken more
\* than half the keepalive interval
SlowNow(w) ==
  /\ timedOut[w]
  /\ pc[w] \in {"for", "connect", "connected", "exit", "except", "warn"}
  /\ 2 * (now - deadline[w]) > keepalive_interval[w]

\* C8 as stated, for periods that begin with the worker waiting on an empty
\* inbox: once no command has been enqueued for more than 3 keepalive
\* intervals, at least 2 keepalive cycles have been completed in that period.
C8_KeepaliveCadence ==
  (winStart # NoWindow /\ now - winStart > 3 * keepalive_interval[1]) =>
    winCycles >= 2

\* C8 amended: the same, for a period that begins with the worker waiting on
\* an empty inbox and in which no keepalive cycle takes more than half the
\* keepalive interval.
C8_CadenceWhenFast ==
  ( /\ winStart # NoWindow
    /\ ~winSlow
    /\ ~SlowNow(1)
    /\ now - winStart > 3 * keepalive_interval[1] ) =>
    winCycles >= 2

\* such a period has lasted more than 3 intervals, with a cycle in it that
\* took time, and 2 cycles were completed
C8_Witness ==
  /\ winStart > 0
  /\ ~winSlow
  /\ ~SlowNow(1)
  /\ now - winStart > 3 * keepalive_interval[1]
  /\ winCycles = 2
  /\ failure_count[1] >= 1

\* the call of the synchronous _write has returned
GattReturned == gpc = "idle" /\ gn # Unbound

\* C11: a call of the synchronous _write runs the tool at least once and at
\* most 5 times, runs it no more after a run that exited with status 0, and
\* returns without raising, also when all 5 runs exited non-zero.
C11_GattRetries ==
  /\ gpc \in {"idle", "for", "run"}
  /\ Len(gruns) <= GattAttempts
  /\ Len(gruns) = (IF gpc = "run" THEN gn ELSE gn + 1)
  /\ \A k \in 1..(Len(gruns) - 1) : gruns[k] # 0
  /\ (gruns # <<>> /\ gruns[Len(gruns)] = 0) => GattReturned
  /\ GattReturned =>
       /\ Len(gruns) >= 1
       /\ gruns[Len(gruns)] = 0 \/ Len(gruns) = GattAttempts

\* a call has returned after 5 runs that all exited non-zero
C11_Witness ==
  /\ GattReturned
  /\ Len(gruns) = GattAttempts
  /\ \A k \in 1..Len(gruns) : gruns[k] # 0

\* (v >> o) & 0xff for an offset o that is a multiple of 8
ByteAt(v, o) == v[(o \div ByteBits) + 1]
\* v & ~(0xff << o)
ClearByte(v, o) == [v EXCEPT ![(o \div ByteBits) + 1] = 0]
\* v is an integer of the representation: every digit is a byte
IsValue(v) == Len(v) = NumDigits /\ \A k \in 1..NumDigits : v[k] \in Bytes
\* 0x5600000000f0aa and 0x56000000000faa, digit by digit from the hex text
RgbBaseHex == <<10 * 16 + 10, 15 * 16, 0, 0, 0, 0, 5 * 16 + 6, 0>>
WhiteBaseHex == <<10 * 16 + 10, 15, 0, 0, 0, 0, 5 * 16 + 6, 0>>

\* C12: the value set_color(r, g, b) passes to _write has r in bits 40-47, g
\* in bits 32-39, b in bits 24-31, and with those three bytes cleared it is
\* 0x5600000000f0aa.
C12_ColorDecodes ==
  \A p \in PIDs :
    (ppc[p] = "put" /\ call[p] # <<>> /\ call[p][1] = "set_color") =>
      /\ IsValue(pval[p])
      /\ ByteAt(pval[p], 40) = call[p][2]
      /\ ByteAt(pval[p], 32) = call[p][3]
      /\ ByteAt(pval[p], 24) = call[p][4]
      /\ ClearByte(ClearByte(ClearByte(pval[p], 40), 32), 24) = RgbBaseHex

\* set_color(0, 255, 0) has passed its value to _write
C12_Witness ==
  /\ ppc[1] = "put"
  /\ call[1] = <<"set_color", 0, 255, 0>>
  /\ ByteAt(pval[1], 32) = 255

\* C13: the value set_white(w) passes to _write has w in bits 16-23, and with
\* that byte cleared it is 0x56000000000faa.
C13_WhiteDecodes ==
  \A p \in PIDs :
    (ppc[p] = "put" /\ call[p] # <<>> /\ call[p][1] = "set_white") =>
      /\ IsValue(pval[p])
      /\ ByteAt(pval[p], 16) = call[p][2]
      /\ ClearByte(pval[p], 16) = WhiteBaseHex

\* set_white(255) has passed its value to _write
C13_Witness ==
  /\ ppc[1] = "put"
  /\ call[1] = <<"set_white", 255>>
  /\ ByteAt(pval[1], 16) = 255

\* the integer a big-endian byte sequence stands for
FromBigEndian(b) == [k \in 1..NumDigits |-> IF k <= Len(b) THEN b[Len(b) - k + 1] ELSE 0]

\* the method caller p's last call came through
CallName(p) == IF call[p] = <<>> THEN "_write" ELSE call[p][1]

\* a put step: the payload appended to the inbox against the value of the call
C14_PayloadStep ==
  \A p \in PIDs :
    (ppc[p] = "put" /\ ppc'[p] = "idle") =>
      LET v == pval[p]
          q == queue'[pw[p]]
          payload == q[Len(q)][2]
      IN  /\ 8 * Len(payload) >= bit_length(v)
          /\ 8 * (Len(payload) - 1) < bit_length(v)
          /\ FromBigEndian(payload) = v
          /\ \A k \in 1..Len(payload) : payload[k] \in Bytes
          /\ payload[1] # 0
          /\ CallName(p) \in {"set_on", "set_off"} => Len(payload) = 3
          /\ CallName(p) \in {"set_color", "set_white"} => Len(payload) = 7
          /\ v = One => payload = <<1>>

\* C14: the payload a call enqueues is the big-endian byte sequence of its
\* value, ceil(bit_length / 8) bytes long: read big-endian it is the value,
\* its first byte is not zero, it has 3 bytes for set_on and set_off and 7
\* for set_color and set_white, and it is the single byte 1 for the value 1.
C14_PackBigEndian == [][C14_PayloadStep]_vars

\* set_color(0, 0, 0) has enqueued its 7 bytes, 56 00 00 00 00 f0 aa
C14_Witness ==
  /\ ppc[1] = "idle"
  /\ call[1] = <<"set_color", 0, 0, 0>>
  /\ Len(enq[1]) = 1
  /\ enq[1][1][2] = <<86, 0, 0, 0, 0, 240, 170>>

\* C15: for every item (command or keepalive) the connection attempts made
\* number at most `attempts`, at most one of them succeeds, and after a
\* success no further attempt is made: the attempts before it all failed.
C15_AttemptBudget ==
  \A w \in WIDs :
    /\ nConn[w] <= attempts[w]
    /\ nOk[w] <= 1
    /\ nOk[w] + nFail[w] <= nConn[w]
    /\ nOk[w] = 1 =>
         /\ nConn[w] = nFail[w] + 1
         /\ pc[w] \in {"exit", "warn", "loop", "get"}

\* attempts = 3: a keepalive succeeded on its third and last attempt and
\* write(None) has returned
C15_Witness ==
  /\ attempts[1] = 3
  /\ timedOut[1]
  /\ nConn[1] = 3
  /\ nFail[1] = 2
  /\ nOk[1] = 1
  /\ pc[1] = "loop"

\* C16: once write(event) has returned, the warning was logged for the item
\* if and only if it consumed more than 10 connection attempts, and the count
\* the warning names is the number of attempts consumed.
C16_WarnOver10 ==
  \A w \in WIDs :
    (pc[w] \in {"loop", "get"} /\ nConn[w] >= 1) =>
      /\ (warnLog[w] # 0) <=> (nConn[w] > 10)
      /\ warnLog[w] # 0 => warnLog[w] = nConn[w]

\* C17: an attempt is logged as slow exactly when it took more than 10 time
\* units, both when it ended in a failure (the worker is back at the loop
\* head) and when it ended in success (the worker has left the loop).
C17_SlowLogged ==
  \A w \in WIDs :
    /\ (pc[w] = "for" /\ i[w] # Unbound) => (slowLog[w] <=> now - start[w] > 10)
    /\ (pc[w] = "warn" /\ nOk[w] = 1) => (slowLog[w] <=> now - start[w] > 10)

\* a step that changes worker w's inbox is either the put of one caller,
\* which appends one item behind the items already there and changes no
\* counter and no position of a worker, or the worker's own queue.get, which
\* removes the head, hands it to write() and touches no caller; the check
\* part of _write changes no inbox and no counter
C18_InboxStep ==
  /\ \A w \in WIDs :
       queue'[w] # queue[w] =>
         \/ /\ \E p \in PIDs : ppc[p] = "put" /\ ppc'[p] = "idle" /\ pw[p] = w
            /\ Len(queue'[w]) = Len(queue[w]) + 1
            /\ SubSeq(queue'[w], 1, Len(queue[w])) = queue[w]
            /\ counters' = counters
            /\ pc' = pc
         \/ /\ pc[w] = "get" /\ pc'[w] = "for"
            /\ queue[w] # <<>>
            /\ queue'[w] = Tail(queue[w])
            /\ event'[w] = Head(queue[w])
            /\ callers' = callers
  /\ ppc' # ppc => counters' = counters
  /\ pc' # pc => \A w \in WIDs : Len(queue'[w]) <= Len(queue[w])

\* C18: the inbox has one consumer and enqueue-only producers: _write appends
\* exactly one item at the tail and leaves the items before it and the
\* worker's counters unchanged; only the worker's queue.get removes items,
\* always the head, at most one per loop iteration; no step of the worker
\* adds an item.
C18_SingleConsumer ==
  /\ [](\A w \in WIDs : Len(enq[w]) - Len(queue[w]) <= loop_count[w])
  /\ [][C18_InboxStep]_vars

\* two commands were enqueued and the worker, in its first loop iteration,
\* has removed the first; the second is still in the inbox
C18_Witness ==
  /\ Len(enq[1]) = 2
  /\ queue[1] = <<enq[1][2]>>
  /\ event[1] = enq[1][1]
  /\ loop_count[1] = 1

\* a put step into the inbox of a worker that is dead at that moment belongs
\* to a call that has logged the worker-not-alive error
C19_PutStep ==
  \A p \in PIDs :
    (ppc[p] = "put" /\ ppc'[p] = "idle" /\ ~alive[pw[p]]) => perr[p]

\* C19: under every interleaving of _write with the death of the worker
\* thread, a call that enqueues into the inbox of a worker already dead at
\* the enqueue has logged the error.
C19_CheckPutAtomic == [][C19_PutStep]_vars

\* the counters of worker w against the history of its thread
C20_Accounts(w) ==
  /\ success_count[w] + failure_count[w]
       = connTotal[w] - (IF InAttempt(w) THEN 1 ELSE 0)
  /\ empty_count[w] = nTimeouts[w]
  /\ empty_count[w] <= loop_count[w]
  /\ success_count[w] <= loop_count[w]
  /\ pc[w] = "loop" =>
       loop_count[w] = empty_count[w] + (Len(enq[w]) - Len(queue[w]))

C20_NoDecrease ==
  \A w \in WIDs :
    /\ success_count'[w] >= success_count[w]
    /\ failure_count'[w] >= failure_count[w]
    /\ loop_count'[w] >= loop_count[w]
    /\ empty_count'[w] >= empty_count[w]

\* C20: in every reachable state success_count + failure_count is the number
\* of connection attempts completed (begun and no longer in progress),
\* empty_count is the number of waits that timed out, empty_count and
\* success_count are at most loop_count, and between loop iterations
\* loop_count = empty_count + commands removed from the inbox; no step
\* decreases a counter.
C20_CounterAccounting ==
  /\ [](\A w \in WIDs : C20_Accounts(w))
  /\ [][C20_NoDecrease]_vars

\* after a keepalive and a command, with failed and successful attempts, the
\* worker is between loop iterations
C20_Witness ==
  /\ pc[1] = "loop"
  /\ loop_count[1] = 2
  /\ empty_count[1] = 1
  /\ Len(taken[1]) = 1
  /\ failure_count[1] >= 1
  /\ success_count[1] = 2

====
